---- MODULE Spec2Model ----
(***************************************************************************)
(* A model of keyval (src/src/main.rs): a key-value store on a write-ahead *)
(* log.  The log has two backends, InMemoryWriteAheadLog (a Vec of         *)
(* transactions) and OnDiskWriteAheadLog (a File holding one JSON line per *)
(* transaction, read back through a BufReader).                            *)
(*                                                                         *)
(* The file is a sequence of tokens.  A token stands for a run of bytes of *)
(* the JSON text: the id, the command tag, a quoted string, the newline.   *)
(* The File has one cursor, shared by writes and reads: it is opened with  *)
(* read(true).write(true), not append(true), so a write lands at the       *)
(* cursor.  `file` is what the operating system shows (page cache), `disk` *)
(* is what has reached stable storage.                                     *)
(***************************************************************************)
EXTENDS Integers, Sequences, FiniteSets, TLC

VARIABLES
    backend,         \* "mem" | "disk": which WriteAheadLog the Server owns
    data,            \* InMemoryWriteAheadLog.data
    file,            \* OnDiskWriteAheadLog.file: contents as the OS shows them
    disk,            \* the part of the file's contents on stable storage
    pos,             \* the File's cursor (offset in tokens)
    iter,            \* the live ReplayIterator, if any
    transaction_id,  \* Server.transaction_id
    kv,              \* Server.state.kv
    ret,             \* what the last call returned
    phase,           \* history: "appends" while the log began empty and every call so far
                     \* was a successful append, "replay" during the one replay that
                     \* follows them, "other" afterwards
    appended,        \* history: the transactions appended in phase "appends"
    queries,         \* history: the queries executed in phase "appends"
    yielded,         \* history: the elements the live iterator has yielded
    acked,           \* history: the transactions whose on-disk append returned Ok
    execOnly,        \* history: since Server::new the Server made only successful execute calls
    streak,          \* history: how many successful recover() calls were just made in a row (up to 2)
    used,            \* history: how many appends were made, and whether an I/O fault
                     \* was injected (the model injects at most one)
    issued,          \* history: the ids execute put into the transactions it built,
                     \* since Server::new
    applied,         \* history: the ids of the transactions applied to State, since
                     \* Server::new
    first,           \* history: the Server's first call: "none" so far, "recover" (a
                     \* successful recover()), "other"
    run,             \* history: whether the log began empty and every call so far was
                     \* an execute of the first Server, and how each of them ended
    lastQuery        \* history: the query of the Server's last call, if it was an
                     \* execute (<<>> otherwise)

vars == <<backend, data, file, disk, pos, iter, transaction_id, kv, ret,
          phase, appended, queries, yielded, acked, execOnly, streak, used,
          issued, applied, first, run, lastQuery>>

walVars == <<backend, data, file, disk, pos, iter>>
serverVars == <<transaction_id, kv>>
lifeVars == <<issued, applied, first, run, lastQuery>>

(***************************************************************************)
(* Bounds of the model.                                                    *)
(***************************************************************************)
\* ids handed out stay below MaxId
MaxId == 4
\* the log holds at most MaxFileLen tokens
MaxFileLen == 14
\* at most MaxAppends appends are made
MaxAppends == 3
\* capacity of the BufReader, in tokens (std's is 8 KiB)
BufCap == 3
\* a read fault can hit one of the first MaxFaultPull pulls of a recover(),
\* when that pull reads the file
MaxFaultPull == 2

Min(a, b) == IF a < b THEN a ELSE b

(***************************************************************************)
(* Command, Transaction.                                                   *)
(***************************************************************************)
Set(k, v) == [tag |-> "Set", key |-> k, value |-> v]
Get(k) == [tag |-> "Get", key |-> k]
Nop == [tag |-> "Nop"]

Transaction(i, c) == [id |-> i, command |-> c]

(***************************************************************************)
(* Queries: a query is a sequence of pieces, each a run of non-blank       *)
(* characters or a run of whitespace.                                      *)
(***************************************************************************)
Whitespace == {" ", "\t"}

Queries ==
    { <<"SET", " ", "a", " ", "x">>,
      <<"SET", "\t", "a", " ", "y">>,
      <<" ", "SET", " ", "b", " ", "x", " ">>,
      <<"GE", "T", " ", "a">>,
      <<"GET", " ", "a", " ", "x">>,
      <<"SET", " ", "a">>,
      <<" ">> }

\* the strings a key or a value can be
Words == {"a", "b", "x", "y"}

\* str::split_whitespace: the maximal runs of non-blank characters
RECURSIVE SplitFrom(_, _, _)
SplitFrom(q, i, cur) ==
    IF i > Len(q) THEN (IF cur = "" THEN <<>> ELSE <<cur>>)
    ELSE IF q[i] \in Whitespace
         THEN (IF cur = "" THEN <<>> ELSE <<cur>>) \o SplitFrom(q, i + 1, "")
         ELSE SplitFrom(q, i + 1, cur \o q[i])

split_whitespace(q) == SplitFrom(q, 1, "")

\* Server::parse
parse(query) ==
    LET parts == split_whitespace(query)
    IN  IF Len(parts) = 2 /\ parts[1] = "GET" THEN Get(parts[2])
        ELSE IF Len(parts) = 3 /\ parts[1] = "SET" THEN Set(parts[2], parts[3])
        ELSE Nop

(***************************************************************************)
(* The JSON line of a transaction, as tokens, and its decoding.            *)
(***************************************************************************)
\* a number is written in decimal, a string between quotes
IdToks == [i \in 0..MaxId |-> ToString(i)]
StrToks == [w \in Words |-> "\"" \o w \o "\""]
IdTok(i) == IdToks[i]
StrTok(w) == StrToks[w]
IdTokSet == {IdToks[i] : i \in 0..MaxId}
StrTokSet == {StrToks[w] : w \in Words}
IsIdTok(tok) == tok \in IdTokSet
IsStrTok(tok) == tok \in StrTokSet
IdOf(tok) == CHOOSE i \in 0..MaxId : IdToks[i] = tok
StrOf(tok) == CHOOSE w \in Words : StrToks[w] = tok

\* serde_json::to_string(transaction)
to_string(t) ==
    LET c == t.command
    IN  IF c.tag = "Set" THEN <<IdTok(t.id), "Set", StrTok(c.key), StrTok(c.value)>>
        ELSE IF c.tag = "Get" THEN <<IdTok(t.id), "Get", StrTok(c.key)>>
        ELSE <<IdTok(t.id), "Nop">>

\* mutant of Line: write! in place of writeln!, no newline
Line_NoNewline(t) == to_string(t)

\* what writeln! writes: the JSON text, then the newline
Line(t) == to_string(t) \o <<"\n">>

\* serde_json::from_str(&buffer): trailing whitespace is allowed, anything
\* else that is not exactly one transaction is an error
from_str(buffer) ==
    LET n == Len(buffer)
        b == IF n > 0 /\ buffer[n] = "\n" THEN SubSeq(buffer, 1, n - 1) ELSE buffer
    IN  IF Len(b) = 2 /\ IsIdTok(b[1]) /\ b[2] = "Nop"
        THEN [ok |-> TRUE, t |-> Transaction(IdOf(b[1]), Nop)]
        ELSE IF Len(b) = 3 /\ IsIdTok(b[1]) /\ b[2] = "Get" /\ IsStrTok(b[3])
        THEN [ok |-> TRUE, t |-> Transaction(IdOf(b[1]), Get(StrOf(b[3])))]
        ELSE IF Len(b) = 4 /\ IsIdTok(b[1]) /\ b[2] = "Set" /\ IsStrTok(b[3]) /\ IsStrTok(b[4])
        THEN [ok |-> TRUE, t |-> Transaction(IdOf(b[1]), Set(StrOf(b[3]), StrOf(b[4])))]
        ELSE [ok |-> FALSE, t |-> Transaction(0, Nop)]

(***************************************************************************)
(* File: a write lands at the cursor and moves it.                         *)
(***************************************************************************)
WriteAt(f, p, toks) ==
    SubSeq(f, 1, p) \o toks \o SubSeq(f, p + Len(toks) + 1, Len(f))

(***************************************************************************)
(* Replay iterators.  An element is Ok(t), Err, or None (the end).         *)
(***************************************************************************)
NoIter == [live |-> FALSE, idx |-> 0, buf |-> <<>>, error |-> FALSE]

SomeOk(t) == [kind |-> "ok", t |-> t]
SomeErr(e) == [kind |-> e, t |-> Transaction(0, Nop)]
None == [kind |-> "none", t |-> Transaction(0, Nop)]

\* InMemoryReplayIterator::next
InMemoryNext(it, d) ==
    IF it.idx < Len(d)
    THEN [item |-> SomeOk(d[it.idx + 1]), iter |-> [it EXCEPT !.idx = it.idx + 1]]
    ELSE [item |-> None, iter |-> it]

NewlineAt(buf) ==
    IF \E i \in 1..Len(buf) : buf[i] = "\n"
    THEN CHOOSE i \in 1..Len(buf) : buf[i] = "\n" /\ \A j \in 1..(i - 1) : buf[j] # "\n"
    ELSE 0

\* BufReader::read_line: take from the buffer up to the newline, refilling
\* the buffer from the file at the cursor when it is empty; `fault` makes
\* the first read of the file fail
RECURSIVE read_line(_, _, _, _, _)
read_line(acc, buf, p, f, fault) ==
    IF buf = <<>>
    THEN IF fault
         THEN [ok |-> FALSE, line |-> acc, buf |-> buf, pos |-> p]
         ELSE LET n == Min(BufCap, Len(f) - p)
              IN  IF n <= 0
                  THEN [ok |-> TRUE, line |-> acc, buf |-> <<>>, pos |-> p]
                  ELSE read_line(acc, SubSeq(f, p + 1, p + n), p + n, f, FALSE)
    ELSE LET i == NewlineAt(buf)
         IN  IF i > 0
             THEN [ok |-> TRUE, line |-> acc \o SubSeq(buf, 1, i),
                   buf |-> SubSeq(buf, i + 1, Len(buf)), pos |-> p]
             ELSE read_line(acc \o buf, <<>>, p, f, fault)

\* mutant of OnDiskNext: a decode failure does not set `error`
OnDiskNext_NoLatch(it, f, p, fault) ==
    LET r == read_line(<<>>, it.buf, p, f, fault)
    IN  IF ~r.ok
        THEN [item |-> SomeErr("io"), iter |-> [it EXCEPT !.error = TRUE], pos |-> p]
        ELSE IF Len(r.line) > 0
        THEN LET d == from_str(r.line)
             IN  IF d.ok
                 THEN [item |-> SomeOk(d.t), iter |-> [it EXCEPT !.buf = r.buf],
                       pos |-> r.pos]
                 ELSE [item |-> SomeErr("decode"), iter |-> [it EXCEPT !.buf = r.buf],
                       pos |-> r.pos]
        ELSE [item |-> None, iter |-> [it EXCEPT !.buf = r.buf], pos |-> r.pos]

\* OnDiskReplayIterator::next
OnDiskNext(it, f, p, fault) ==
    IF it.error
    THEN [item |-> None, iter |-> it, pos |-> p]
    ELSE LET r == read_line(<<>>, it.buf, p, f, fault)
         IN  IF ~r.ok
             THEN [item |-> SomeErr("io"), iter |-> [it EXCEPT !.error = TRUE], pos |-> p]
             ELSE IF Len(r.line) > 0
             THEN LET d == from_str(r.line)
                  IN  IF d.ok
                      THEN [item |-> SomeOk(d.t), iter |-> [it EXCEPT !.buf = r.buf],
                            pos |-> r.pos]
                      ELSE [item |-> SomeErr("decode"),
                            iter |-> [it EXCEPT !.buf = r.buf, !.error = TRUE],
                            pos |-> r.pos]
             ELSE [item |-> None, iter |-> [it EXCEPT !.buf = r.buf], pos |-> r.pos]

(***************************************************************************)
(* What a log holds: the elements a full replay from the first record      *)
(* yields when no read fails, told from the contents alone.                *)
(***************************************************************************)
RECURSIVE LinesOf(_)
LinesOf(f) ==
    IF f = <<>> THEN <<>>
    ELSE LET i == NewlineAt(f)
         IN  IF i = 0 THEN <<f>>
             ELSE <<SubSeq(f, 1, i)>> \o LinesOf(SubSeq(f, i + 1, Len(f)))

RECURSIVE ElementsOfLines(_)
ElementsOfLines(ls) ==
    IF ls = <<>> THEN <<>>
    ELSE LET d == from_str(ls[1])
         IN  IF d.ok THEN <<SomeOk(d.t)>> \o ElementsOfLines(Tail(ls))
             ELSE <<SomeErr("decode")>>

ElementsOfData(d) == [i \in 1..Len(d) |-> SomeOk(d[i])]

Elements == IF backend = "mem" THEN ElementsOfData(data) ELSE ElementsOfLines(LinesOf(file))

IsOk(e) == e.kind = "ok"
RECURSIVE TxnsOf(_)
TxnsOf(es) ==
    IF es = <<>> THEN <<>>
    ELSE IF IsOk(es[1]) THEN <<es[1].t>> \o TxnsOf(Tail(es)) ELSE TxnsOf(Tail(es))

\* the records stored in the log
Stored == TxnsOf(Elements)

IsPrefix(s, t) == Len(s) <= Len(t) /\ SubSeq(t, 1, Len(s)) = s

(***************************************************************************)
(* Initial logs: a Server or a caller is handed an already-open backend,   *)
(* which may hold records.                                                 *)
(***************************************************************************)
RECURSIVE Lines(_)
Lines(d) == IF d = <<>> THEN <<>> ELSE Line(d[1]) \o Lines(Tail(d))

InitData ==
    { <<>>,
      <<Transaction(0, Set("a", "x")), Transaction(2, Nop)>> }

\* a file whose second line is a truncated record, followed by a valid one
CorruptFile ==
    Line(Transaction(0, Nop)) \o <<IdTok(1), "Get", "\n">> \o Line(Transaction(1, Nop))

InitFiles == {Lines(d) : d \in InitData} \cup {CorruptFile}

Ret(op, ok, err, val, item) ==
    [op |-> op, ok |-> ok, err |-> err, val |-> val, item |-> item]

InitWal ==
    /\ backend \in {"mem", "disk"}
    /\ IF backend = "mem"
       THEN data \in InitData /\ file = <<>>
       ELSE data = <<>> /\ file \in InitFiles
    /\ disk = file
    /\ pos = 0
    /\ iter = NoIter

\* Server::new
InitServer ==
    /\ transaction_id = 0
    /\ kv = <<>>

Init ==
    /\ InitWal
    /\ InitServer
    /\ ret = Ret("new", TRUE, "", "", None)
    /\ phase = IF data = <<>> /\ file = <<>> THEN "appends" ELSE "other"
    /\ appended = <<>>
    /\ queries = <<>>
    /\ yielded = <<>>
    /\ acked = {}
    /\ execOnly = TRUE
    /\ streak = 0
    /\ used = [appends |-> 0, fault |-> FALSE]
    /\ issued = <<>>
    /\ applied = <<>>
    /\ first = "none"
    /\ run = [pure |-> (data = <<>> /\ file = <<>>), kinds |-> <<>>]
    /\ lastQuery = <<>>

(***************************************************************************)
(* WriteAheadLog::append.                                                  *)
(***************************************************************************)
\* how an on-disk append can end: Ok; writeln! fails after n tokens of the
\* line went out (the text and the newline are separate writes, and a write
\* can be short); sync_data fails after the whole line went out
AppendOutcomes(t) ==
    {[kind |-> "ok", n |-> Len(Line(t))], [kind |-> "sync", n |-> Len(Line(t))]}
        \cup {[kind |-> "write", n |-> k] : k \in {0, 1, Len(Line(t)) - 1}}

\* the model's budget: MaxAppends appends, one I/O fault
CanAppend == used.appends < MaxAppends
CanFault(f) == f => ~used.fault
Use(a, f) ==
    used' = [appends |-> used.appends + (IF a THEN 1 ELSE 0), fault |-> used.fault \/ f]

\* OnDiskWriteAheadLog::append
OnDiskAppend(t, o) ==
    /\ file' = WriteAt(file, pos, SubSeq(Line(t), 1, o.n))
    /\ pos' = pos + o.n
    /\ disk' = IF o.kind = "ok" THEN file' ELSE disk
    /\ UNCHANGED <<backend, data, iter>>

\* InMemoryWriteAheadLog::append
InMemoryAppend(t) ==
    /\ data' = Append(data, t)
    /\ UNCHANGED <<backend, file, disk, pos, iter>>

\* the model's bound on the log's length
FitsIn(t) ==
    IF backend = "mem" THEN Len(Lines(data)) + Len(Line(t)) <= MaxFileLen
    ELSE Len(WriteAt(file, pos, Line(t))) <= MaxFileLen

\* append on the backend at hand; o is the outcome ("ok" for the in-memory one)
WalAppendOp(t, o) ==
    IF backend = "mem" THEN o.kind = "ok" /\ InMemoryAppend(t) ELSE OnDiskAppend(t, o)

\* a new iterator
StartIter == [live |-> TRUE, idx |-> 0, buf |-> <<>>, error |-> FALSE]

\* Iterator::next on the iterator of the backend at hand, the cursor at p
Pull(it, p, fault) ==
    IF backend = "mem"
    THEN LET r == InMemoryNext(it, data) IN [item |-> r.item, iter |-> r.iter, pos |-> p]
    ELSE OnDiskNext(it, file, p, fault)

(***************************************************************************)
(* WriteAheadLog::replay.                                                  *)
(***************************************************************************)
\* mutant of OnDiskReplay: no rewind, the new BufReader reads on from the cursor
OnDiskReplay_NoRewind(fault) ==
    IF fault
    THEN UNCHANGED walVars
    ELSE /\ iter' = [live |-> TRUE, idx |-> 0, buf |-> <<>>, error |-> FALSE]
         /\ UNCHANGED <<backend, data, file, disk, pos>>

\* OnDiskWriteAheadLog::replay: rewind, then a new BufReader
OnDiskReplay(fault) ==
    IF fault
    THEN UNCHANGED walVars
    ELSE /\ pos' = 0
         /\ iter' = StartIter
         /\ UNCHANGED <<backend, data, file, disk>>

\* InMemoryWriteAheadLog::replay
InMemoryReplay ==
    /\ iter' = StartIter
    /\ UNCHANGED <<backend, data, file, disk, pos>>

(***************************************************************************)
(* The calls a holder of the backend makes on it.                          *)
(***************************************************************************)
WalTxns ==
    { Transaction(0, Set("a", "x")), Transaction(1, Get("b")),
      Transaction(2, Nop), Transaction(0, Nop) }

WalAppend(t, o) ==
    /\ ~iter.live
    /\ CanAppend /\ CanFault(o.kind # "ok")
    /\ FitsIn(t)
    /\ Use(TRUE, o.kind # "ok")
    /\ WalAppendOp(t, o)
    /\ ret' = Ret("append", o.kind = "ok", IF o.kind = "ok" THEN "" ELSE "io", "", None)
    /\ phase' = IF phase = "appends" /\ o.kind = "ok" THEN "appends" ELSE "other"
    /\ appended' = IF phase' = "appends" THEN Append(appended, t) ELSE <<>>
    /\ acked' = IF backend = "disk" /\ o.kind = "ok" THEN acked \cup {t} ELSE acked
    /\ UNCHANGED <<serverVars, lifeVars, queries, yielded, execOnly, streak>>

WalReplay(fault) ==
    /\ ~iter.live
    /\ CanFault(fault) /\ Use(FALSE, fault)
    /\ IF backend = "mem" THEN ~fault /\ InMemoryReplay ELSE OnDiskReplay(fault)
    /\ ret' = Ret("replay", ~fault, IF fault THEN "io" ELSE "", "", None)
    /\ phase' = IF phase = "appends" /\ ~fault THEN "replay" ELSE "other"
    /\ yielded' = <<>>
    /\ UNCHANGED <<serverVars, lifeVars, appended, queries, acked, execOnly, streak>>

WalNext(fault) ==
    /\ iter.live
    /\ backend = "mem" => ~fault
    /\ CanFault(fault) /\ Use(FALSE, fault)
    /\ \E r \in {Pull(iter, pos, fault)} :
           /\ fault => r.item.kind = "io"
           /\ iter' = r.iter
           /\ pos' = r.pos
           /\ ret' = Ret("next", TRUE, "", "", r.item)
           /\ yielded' = IF r.item.kind = "none" THEN yielded ELSE Append(yielded, r.item)
    /\ UNCHANGED <<backend, data, file, disk>>
    /\ phase' = IF phase = "replay" /\ ~fault THEN "replay" ELSE "other"
    /\ UNCHANGED <<serverVars, lifeVars, appended, queries, acked, execOnly, streak>>

\* the iterator goes out of scope; the File keeps its cursor
WalDrop ==
    /\ iter.live
    /\ iter' = NoIter
    /\ ret' = Ret("drop", TRUE, "", "", None)
    /\ phase' = "other"
    /\ yielded' = <<>>
    /\ UNCHANGED <<backend, data, file, disk, pos, serverVars, lifeVars, appended,
                   queries, acked, execOnly, streak, used>>

(***************************************************************************)
(* The environment: the OS writes dirty pages back when it likes; the      *)
(* process can be restarted; the machine can crash.                        *)
(***************************************************************************)
Writeback ==
    /\ backend = "disk"
    /\ disk # file
    /\ disk' = file
    /\ ret' = Ret("writeback", TRUE, "", "", None)
    /\ streak' = 0
    /\ UNCHANGED <<backend, data, file, pos, iter, serverVars, lifeVars,
                   phase, appended, queries, yielded, acked, execOnly, used>>

\* the backend is dropped and built again: the file is opened anew (cursor
\* at 0, never truncated), the in-memory log starts empty; lose is TRUE for
\* a crash of the machine, which loses what was not on stable storage
Reopen(lose) ==
    /\ data' = <<>>
    /\ file' = IF lose THEN disk ELSE file
    /\ pos' = 0
    /\ iter' = NoIter
    /\ UNCHANGED <<backend, disk>>

WalRestart(lose) ==
    /\ lose => backend = "disk" /\ disk # file
    /\ Reopen(lose)
    /\ ret' = Ret(IF lose THEN "crash" ELSE "restart", TRUE, "", "", None)
    /\ phase' = "other"
    /\ appended' = <<>>
    /\ yielded' = <<>>
    /\ UNCHANGED <<serverVars, lifeVars, queries, acked, execOnly, streak, used>>

(***************************************************************************)
(* State, Server.                                                          *)
(***************************************************************************)
Insert(m, k, v) == [x \in DOMAIN m \cup {k} |-> IF x = k THEN v ELSE m[x]]

\* mutant of apply: Set keeps the value a key already has
apply_KeepFirst(m, t) ==
    LET c == t.command
    IN  IF c.tag = "Set"
        THEN [kv |-> IF c.key \in DOMAIN m THEN m ELSE Insert(m, c.key, c.value),
              result |-> ""]
        ELSE IF c.tag = "Get"
        THEN [kv |-> m, result |-> IF c.key \in DOMAIN m THEN m[c.key] ELSE ""]
        ELSE [kv |-> m, result |-> ""]

\* State::apply: the new kv and the string returned
apply(m, t) ==
    LET c == t.command
    IN  IF c.tag = "Set" THEN [kv |-> Insert(m, c.key, c.value), result |-> ""]
        ELSE IF c.tag = "Get"
        THEN [kv |-> m, result |-> IF c.key \in DOMAIN m THEN m[c.key] ELSE ""]
        ELSE [kv |-> m, result |-> ""]

\* mutants of RecoverLoop.  which = "skip_equal": a transaction with
\* id = transaction_id is skipped too; "apply_overlap": a transaction with
\* id < transaction_id is applied again; "no_gap_check": a transaction
\* with id > transaction_id is applied like the expected one;
\* "skip_advance": skipping a transaction raises the counter; "swallow": a
\* failure element is passed over
RECURSIVE RecoverLoopMutant(_, _, _, _, _, _, _)
RecoverLoopMutant(which, it, p, tid, m, n, failAt) ==
    LET r == Pull(it, p, n = failAt)
    IN  IF r.item.kind = "none"
        THEN [ok |-> TRUE, err |-> "", tid |-> tid, kv |-> m, pos |-> r.pos,
              applied |-> <<>>]
        ELSE IF r.item.kind # "ok" /\ which = "swallow"
        THEN RecoverLoopMutant(which, r.iter, r.pos, tid, m, n + 1, failAt)
        ELSE IF r.item.kind # "ok"
        THEN [ok |-> FALSE, err |-> r.item.kind, tid |-> tid, kv |-> m, pos |-> r.pos,
              applied |-> <<>>]
        ELSE LET t == r.item.t
             IN  IF (t.id < tid /\ which # "apply_overlap") \/ (t.id = tid /\ which = "skip_equal")
                 THEN RecoverLoopMutant(which, r.iter, r.pos,
                                        IF which = "skip_advance" THEN tid + 1 ELSE tid,
                                        m, n + 1, failAt)
                 ELSE IF (t.id > tid /\ which # "no_gap_check")
                 THEN [ok |-> FALSE, err |-> "sequencing", tid |-> tid, kv |-> m,
                       pos |-> r.pos, applied |-> <<>>]
                 ELSE [RecoverLoopMutant(which, r.iter, r.pos, tid + 1, apply(m, t).kv,
                                         n + 1, failAt)
                          EXCEPT !.applied = <<t.id>> \o @]

RecoverLoop_SkipEqual(it, p, tid, m, n, failAt) ==
    RecoverLoopMutant("skip_equal", it, p, tid, m, n, failAt)
RecoverLoop_ApplyOverlap(it, p, tid, m, n, failAt) ==
    RecoverLoopMutant("apply_overlap", it, p, tid, m, n, failAt)
RecoverLoop_NoGapCheck(it, p, tid, m, n, failAt) ==
    RecoverLoopMutant("no_gap_check", it, p, tid, m, n, failAt)
RecoverLoop_SkipAdvances(it, p, tid, m, n, failAt) ==
    RecoverLoopMutant("skip_advance", it, p, tid, m, n, failAt)
RecoverLoop_Swallow(it, p, tid, m, n, failAt) ==
    RecoverLoopMutant("swallow", it, p, tid, m, n, failAt)

\* Server::recover, the loop over the replay iterator: n counts the pulls,
\* the read of pull failAt fails (0: none does); `applied` lists the ids of
\* the transactions the loop applied
RECURSIVE RecoverLoop(_, _, _, _, _, _)
RecoverLoop(it, p, tid, m, n, failAt) ==
    LET r == Pull(it, p, n = failAt)
    IN  IF r.item.kind = "none"
        THEN [ok |-> TRUE, err |-> "", tid |-> tid, kv |-> m, pos |-> r.pos,
              applied |-> <<>>]
        ELSE IF r.item.kind # "ok"
        THEN [ok |-> FALSE, err |-> r.item.kind, tid |-> tid, kv |-> m, pos |-> r.pos,
              applied |-> <<>>]
        ELSE LET t == r.item.t
             IN  IF t.id < tid
                 THEN RecoverLoop(r.iter, r.pos, tid, m, n + 1, failAt)
                 ELSE IF t.id > tid
                 THEN [ok |-> FALSE, err |-> "sequencing", tid |-> tid, kv |-> m,
                       pos |-> r.pos, applied |-> <<>>]
                 ELSE [RecoverLoop(r.iter, r.pos, tid + 1, apply(m, t).kv, n + 1, failAt)
                          EXCEPT !.applied = <<t.id>> \o @]

\* Server::recover on a Server with counter tid and State m; rewindFault
\* makes replay() itself fail
recover(tid, m, rewindFault, failAt) ==
    IF rewindFault
    THEN [ok |-> FALSE, err |-> "io", tid |-> tid, kv |-> m, pos |-> pos, applied |-> <<>>]
    ELSE RecoverLoop(StartIter, IF backend = "mem" THEN pos ELSE 0, tid, m, 1, failAt)

\* mutant of execute: the transaction is applied before it is appended
execute_ApplyFirst(query, o) ==
    LET t == Transaction(transaction_id, parse(query))
    IN  /\ transaction_id' = transaction_id + 1
        /\ issued' = Append(issued, t.id)
        /\ kv' = apply(kv, t).kv
        /\ applied' = Append(applied, t.id)
        /\ WalAppendOp(t, o)
        /\ IF o.kind = "ok"
           THEN ret' = Ret("execute", TRUE, "", apply(kv, t).result, None)
           ELSE ret' = Ret("execute", FALSE, "io", "", None)

\* mutant of execute: the counter is raised only when the append succeeded
execute_RollbackOnFailure(query, o) ==
    LET t == Transaction(transaction_id, parse(query))
        r == apply(kv, t)
    IN  /\ transaction_id' = IF o.kind = "ok" THEN transaction_id + 1 ELSE transaction_id
        /\ issued' = Append(issued, t.id)
        /\ WalAppendOp(t, o)
        /\ IF o.kind = "ok"
           THEN /\ kv' = r.kv
                /\ applied' = Append(applied, t.id)
                /\ ret' = Ret("execute", TRUE, "", r.result, None)
           ELSE /\ kv' = kv
                /\ applied' = applied
                /\ ret' = Ret("execute", FALSE, "io", "", None)

\* Server::execute: the transaction is built, the counter raised, the
\* transaction appended, and only then applied
execute(query, o) ==
    LET t == Transaction(transaction_id, parse(query))
        r == apply(kv, t)
    IN  /\ transaction_id' = transaction_id + 1
        /\ issued' = Append(issued, t.id)
        /\ WalAppendOp(t, o)
        /\ IF o.kind = "ok"
           THEN /\ kv' = r.kv
                /\ applied' = Append(applied, t.id)
                /\ ret' = Ret("execute", TRUE, "", r.result, None)
           ELSE /\ kv' = kv
                /\ applied' = applied
                /\ ret' = Ret("execute", FALSE, "io", "", None)

\* the commands of the queries the model executes
Parsed == [q \in Queries |-> parse(q)]

Execute(query, o) ==
    /\ ~iter.live
    /\ CanAppend /\ CanFault(o.kind # "ok")
    /\ transaction_id < MaxId
    /\ FitsIn(Transaction(transaction_id, Parsed[query]))
    /\ Use(TRUE, o.kind # "ok")
    /\ execute(query, o)
    /\ phase' = IF phase = "appends" /\ o.kind = "ok" THEN "appends" ELSE "other"
    /\ appended' = IF phase' = "appends"
                   THEN Append(appended, Transaction(transaction_id, Parsed[query]))
                   ELSE <<>>
    /\ execOnly' = (execOnly /\ o.kind = "ok")
    /\ queries' = IF execOnly' THEN Append(queries, query) ELSE <<>>
    /\ streak' = 0
    /\ first' = IF first = "none" THEN "other" ELSE first
    /\ run' = IF run.pure THEN [run EXCEPT !.kinds = Append(@, o.kind)] ELSE run
    /\ lastQuery' = query
    /\ UNCHANGED <<yielded, acked>>

\* mutant of Recover: a successful recovery appends a Nop record to the log
Recover_LogsItsEnd(rewindFault, failAt) ==
    /\ ~iter.live
    /\ backend = "mem" => ~rewindFault /\ failAt = 0
    /\ ~(rewindFault /\ failAt > 0)
    /\ CanFault(rewindFault \/ failAt > 0)
    /\ Use(FALSE, rewindFault \/ failAt > 0)
    /\ \E r \in {recover(transaction_id, kv, rewindFault, failAt)} :
           /\ failAt > 0 => r.err = "io"
           /\ transaction_id' = r.tid
           /\ kv' = r.kv
           /\ IF r.ok /\ backend = "mem"
              THEN data' = Append(data, Transaction(r.tid, Nop)) /\ file' = file /\ pos' = r.pos
              ELSE IF r.ok
              THEN /\ file' = WriteAt(file, r.pos, Line(Transaction(r.tid, Nop)))
                   /\ pos' = r.pos + Len(Line(Transaction(r.tid, Nop)))
                   /\ data' = data
              ELSE data' = data /\ file' = file /\ pos' = r.pos
           /\ ret' = Ret("recover", r.ok, r.err, "", None)
           /\ streak' = IF r.ok THEN Min(streak + 1, 2) ELSE 0
           /\ applied' = applied \o r.applied
           /\ first' = IF first = "none" THEN (IF r.ok THEN "recover" ELSE "other")
                       ELSE first
    /\ issued' = issued
    /\ run' = [pure |-> FALSE, kinds |-> <<>>]
    /\ lastQuery' = <<>>
    /\ phase' = "other"
    /\ appended' = <<>>
    /\ execOnly' = FALSE
    /\ queries' = <<>>
    /\ UNCHANGED <<backend, disk, iter, yielded, acked>>

Recover(rewindFault, failAt) ==
    /\ ~iter.live
    /\ backend = "mem" => ~rewindFault /\ failAt = 0
    /\ ~(rewindFault /\ failAt > 0)
    /\ CanFault(rewindFault \/ failAt > 0)
    /\ Use(FALSE, rewindFault \/ failAt > 0)
    /\ \E r \in {recover(transaction_id, kv, rewindFault, failAt)} :
           /\ failAt > 0 => r.err = "io"
           /\ transaction_id' = r.tid
           /\ kv' = r.kv
           /\ pos' = r.pos
           /\ ret' = Ret("recover", r.ok, r.err, "", None)
           /\ streak' = IF r.ok THEN Min(streak + 1, 2) ELSE 0
           /\ applied' = applied \o r.applied
           /\ first' = IF first = "none" THEN (IF r.ok THEN "recover" ELSE "other")
                       ELSE first
    /\ issued' = issued
    /\ run' = [pure |-> FALSE, kinds |-> <<>>]
    /\ lastQuery' = <<>>
    /\ phase' = "other"
    /\ appended' = <<>>
    /\ execOnly' = FALSE
    /\ queries' = <<>>
    /\ UNCHANGED <<backend, data, file, disk, iter, yielded, acked>>

\* Server::new over the backend the previous Server owned
NewServer ==
    /\ ~iter.live
    /\ transaction_id' = 0
    /\ kv' = <<>>
    /\ ret' = Ret("new", TRUE, "", "", None)
    /\ execOnly' = TRUE
    /\ queries' = <<>>
    /\ streak' = 0
    /\ issued' = <<>>
    /\ applied' = <<>>
    /\ first' = "none"
    /\ run' = [pure |-> FALSE, kinds |-> <<>>]
    /\ lastQuery' = <<>>
    /\ UNCHANGED <<walVars, phase, appended, yielded, acked, used>>

Next ==
    \/ \E q \in Queries : \E o \in AppendOutcomes(Transaction(transaction_id, Parsed[q])) :
            Execute(q, o)
    \/ \E rewindFault \in BOOLEAN : \E failAt \in 0..MaxFaultPull :
            Recover(rewindFault, failAt)
    \/ NewServer
    \/ Writeback

Spec == Init /\ [][Next]_vars

NextWal ==
    \/ \E t \in WalTxns : \E o \in AppendOutcomes(t) : WalAppend(t, o)
    \/ \E fault \in BOOLEAN : WalReplay(fault)
    \/ \E fault \in BOOLEAN : WalNext(fault)
    \/ WalDrop
    \/ Writeback
    \/ \E lose \in BOOLEAN : WalRestart(lose)

SpecWal == Init /\ [][NextWal]_vars

(***************************************************************************)
(* The claims.                                                             *)
(***************************************************************************)

\* C1: after any sequence of successful execute calls on a fresh Server over
\* a log that began empty, recover() on a new Server (transaction_id 0,
\* empty kv) over the same log returns Ok and ends with the kv and the
\* transaction_id of the first Server.
RecoveryReproducesState ==
    (phase = "appends" /\ execOnly /\ Len(queries) = Len(appended)) =>
        LET r == recover(0, <<>>, FALSE, 0)
        IN  r.ok /\ r.kv = kv /\ r.tid = transaction_id

RecoveryReproducesStateWitness ==
    /\ phase = "appends" /\ execOnly
    /\ backend = "disk"
    /\ Len(queries) = 3 /\ Len(appended) = 3
    /\ Cardinality(DOMAIN kv) = 2

\* what recover() must do with the elements es of a replay, starting from
\* counter tid and kv m: whether it meets a gap, the counter and the kv it
\* has when it stops, and the ids of the transactions it applies
RECURSIVE Walk(_, _, _)
Walk(es, tid, m) ==
    IF es = <<>> \/ es[1].kind # "ok"
    THEN [gap |-> FALSE, tid |-> tid, kv |-> m, applied |-> <<>>]
    ELSE IF es[1].t.id > tid THEN [gap |-> TRUE, tid |-> tid, kv |-> m, applied |-> <<>>]
    ELSE IF es[1].t.id < tid THEN Walk(Tail(es), tid, m)
    ELSE [Walk(Tail(es), tid + 1, apply(m, es[1].t).kv) EXCEPT !.applied = <<tid>> \o @]

\* C6: a recover() whose reads do not fail returns the sequencing error
\* exactly when the replay holds a transaction with an id above the
\* counter reached so far, and then kv and transaction_id are what they
\* were after the last transaction applied before that one.
GapDetection ==
    [][(ret'.op = "recover" /\ ret'.err # "io") =>
          LET w == Walk(Elements, transaction_id, kv)
          IN  /\ w.gap <=> ret'.err = "sequencing"
              /\ w.gap => ~ret'.ok /\ kv' = w.kv /\ transaction_id' = w.tid]_vars

\* a fresh Server fed ids 0 then 2: kv is what id 0 produced, the counter is 1
GapDetectionWitness ==
    /\ ret.op = "recover" /\ ret.err = "sequencing"
    /\ Stored = <<Transaction(0, Set("a", "x")), Transaction(2, Nop)>>
    /\ transaction_id = 1
    /\ kv = [k \in {"a"} |-> "x"]

\* C7: a recover() run directly after a successful recover() on the same
\* Server returns Ok (unless a read fails) and leaves kv and
\* transaction_id as they were.
RecoverIdempotent ==
    [][(streak >= 1 /\ ret'.op = "recover" /\ ret'.err # "io") =>
          (ret'.ok /\ kv' = kv /\ transaction_id' = transaction_id)]_vars

RecoverIdempotentWitness ==
    /\ streak = 2
    /\ backend = "disk"
    /\ Len(Stored) >= 2
    /\ kv # <<>>

\* the reading of a query the claims use
WordsOf(q) == split_whitespace(q)
IsSetQuery(q) == Len(WordsOf(q)) = 3 /\ WordsOf(q)[1] = "SET"
IsGetQuery(q) == Len(WordsOf(q)) = 2 /\ WordsOf(q)[1] = "GET"
SetsKey(q, k) == IsSetQuery(q) /\ WordsOf(q)[2] = k

\* the value of the most recent SET of k among the queries qs, "" if none
RECURSIVE LastSet(_, _)
LastSet(qs, k) ==
    IF qs = <<>> THEN ""
    ELSE IF SetsKey(qs[Len(qs)], k) THEN WordsOf(qs[Len(qs)])[3]
    ELSE LastSet(SubSeq(qs, 1, Len(qs) - 1), k)

\* C10: on a Server that has made only successful execute calls, GET k
\* returns the value of the most recent earlier SET of k, or "" when there
\* is none; every other query returns ""; kv maps exactly the keys that
\* were SET, each to its most recent value.
ReadSemantics ==
    (execOnly /\ ret.op = "execute") =>
        LET q == queries[Len(queries)]
            before == SubSeq(queries, 1, Len(queries) - 1)
        IN  /\ ret.ok
            /\ ret.val = IF IsGetQuery(q) THEN LastSet(before, WordsOf(q)[2]) ELSE ""
            /\ \A k \in Words :
                   IF \E i \in 1..Len(queries) : SetsKey(queries[i], k)
                   THEN k \in DOMAIN kv /\ kv[k] = LastSet(queries, k)
                   ELSE k \notin DOMAIN kv

\* SET a x, SET a y, GET a returned "y"
ReadSemanticsWitness ==
    /\ execOnly /\ ret.op = "execute"
    /\ Len(queries) = 3
    /\ IsGetQuery(queries[3])
    /\ ret.val = "y"

\* a failed execute leaves kv as it was; a successful one has put a record
\* with its id in the log, at the cursor and on stable storage
AppendBeforeApply ==
    [][ret'.op = "execute" =>
          IF ~ret'.ok THEN kv' = kv
          ELSE IF backend = "mem"
          THEN Len(data') = Len(data) + 1 /\ data'[Len(data')].id = transaction_id
          ELSE /\ disk' = file'
               /\ from_str(SubSeq(file', pos + 1, pos')).ok
               /\ from_str(SubSeq(file', pos + 1, pos')).t.id = transaction_id]_vars

\* every key that kv maps has a Set record with that key and value in the log
VisibleIsLogged ==
    \A k \in DOMAIN kv : \E i \in 1..Len(Stored) : Stored[i].command = Set(k, kv[k])

\* C2: execute applies a transaction only after its append returned Ok: a
\* failed execute leaves kv as it was, a successful one has made its record
\* durable; and in every reachable state every effect visible in kv has a
\* corresponding record in the log.
DurabilityBeforeVisibility == AppendBeforeApply /\ []VisibleIsLogged

\* C3: after appends alone on a log that began empty, a replay yields the
\* appended transactions, each as Ok, in append order, and when it has
\* reached its end it has yielded all of them and nothing else.
AppendThenReplay ==
    phase = "replay" =>
        /\ IsPrefix(yielded, ElementsOfData(appended))
        /\ (ret.op = "next" /\ ret.item.kind = "none") => yielded = ElementsOfData(appended)

AppendThenReplayWitness ==
    /\ phase = "replay"
    /\ backend = "disk"
    /\ ret.op = "next" /\ ret.item.kind = "none"
    /\ Len(appended) = 3
    /\ yielded = ElementsOfData(appended)

\* C4: an append only extends the log: the records stored before it are a
\* prefix of the records stored after it.
AppendOnlyLog ==
    [][ret'.op = "append" => IsPrefix(Stored, Stored')]_vars

\* C5: a transaction whose on-disk append returned Ok is yielded by a
\* replay of what is on stable storage, at any later point.
AckedIsReplayable ==
    \A t \in acked :
        \E i \in 1..Len(ElementsOfLines(LinesOf(disk))) :
            ElementsOfLines(LinesOf(disk))[i] = SomeOk(t)

\* no element yielded so far is a read failure
NoReadFailure == \A i \in 1..Len(yielded) : yielded[i].kind # "io"

\* C8: what an iterator has yielded is an initial part of what the log
\* holds, counted from its first record, whatever was replayed, dropped or
\* appended before; at its end it has yielded all of it.
ReplayFromTheStart ==
    (iter.live /\ NoReadFailure) =>
        /\ IsPrefix(yielded, Elements)
        /\ (ret.op = "next" /\ ret.item.kind = "none") => yielded = Elements

\* an earlier replay of the corrupt file moved the cursor, an append
\* followed, and the new iterator has yielded the file's first record
ReplayFromTheStartWitness ==
    /\ backend = "disk"
    /\ iter.live
    /\ used.appends >= 1
    /\ Len(file) > Len(CorruptFile)
    /\ SubSeq(file, 1, 6) = SubSeq(CorruptFile, 1, 6)
    /\ yielded = <<SomeOk(Transaction(0, Nop))>>

\* the number of the first line of f that does not decode, 0 if all do
FirstBadLine(f) ==
    LET ls == LinesOf(f)
    IN  IF \E i \in 1..Len(ls) : ~from_str(ls[i]).ok
        THEN CHOOSE i \in 1..Len(ls) :
                 ~from_str(ls[i]).ok /\ \A j \in 1..(i - 1) : from_str(ls[j]).ok
        ELSE 0

\* C9: on a file whose first undecodable line is line k, an on-disk
\* iterator whose reads do not fail yields Ok for the lines before k, then
\* one failure, then nothing, on every later pull; on a file whose lines
\* all decode it yields Ok for each line and no failure.
DecodeFailureExhausts ==
    /\ [](backend = "disk" /\ iter.live /\ NoReadFailure =>
            LET k == FirstBadLine(file)
                n == Len(LinesOf(file))
            IN  /\ Len(yielded) <= IF k = 0 THEN n ELSE k
                /\ \A i \in 1..Len(yielded) :
                       yielded[i].kind = IF i = k THEN "decode" ELSE "ok"
                /\ (ret.op = "next" /\ ret.item.kind = "none") =>
                       Len(yielded) = IF k = 0 THEN n ELSE k)
    /\ [][(backend = "disk" /\ iter.live /\ iter.error /\ ret'.op = "next") =>
             (ret'.item = None /\ yielded' = yielded)]_vars

\* the corrupt file: Ok, the failure, and then the end although a valid
\* line follows
DecodeFailureExhaustsWitness ==
    /\ backend = "disk"
    /\ file = CorruptFile
    /\ iter.live /\ iter.error
    /\ yielded = <<SomeOk(Transaction(0, Nop)), SomeErr("decode")>>
    /\ ret.op = "next" /\ ret.item.kind = "none"

StrictlyIncreasing(ids) == \A i, j \in 1..Len(ids) : i < j => ids[i] < ids[j]
Range(seq) == {seq[i] : i \in 1..Len(seq)}

\* the Server has recovered nothing: every id applied to State was applied
\* by execute
RecoveredNothing == Range(applied) \subseteq Range(issued)

\* C11: over one Server's lifetime the ids execute puts into its
\* transactions are strictly increasing; the first is 0 when the Server has
\* recovered nothing; every execute call, failed or not, uses
\* id = transaction_id and raises transaction_id by exactly 1; no execute
\* and no recover lowers transaction_id.
IdentifierAssignment ==
    /\ [](StrictlyIncreasing(issued))
    /\ []((issued # <<>> /\ RecoveredNothing) => issued[1] = 0)
    /\ [][ret'.op = "execute" =>
             (issued' = Append(issued, transaction_id)
                 /\ transaction_id' = transaction_id + 1)]_vars
    /\ [][ret'.op \in {"execute", "recover"} => transaction_id' >= transaction_id]_vars

\* three executes of one Server, the second of which failed at append:
\* ids 0, 1, 2 were used, 0 and 2 applied
IdentifierAssignmentWitness ==
    /\ issued = <<0, 1, 2>>
    /\ applied = <<0, 2>>
    /\ transaction_id = 3
    /\ ret.op = "execute" /\ ret.ok

\* C12: an execute that fails because the append failed raises
\* transaction_id by 1, leaves kv as it was, and leaves the log holding
\* what it held: a full replay yields the same elements as before the call.
FailedAppendLeavesNoRecord ==
    [][(ret'.op = "execute" /\ ~ret'.ok) =>
          /\ transaction_id' = transaction_id + 1
          /\ kv' = kv
          /\ Elements' = Elements]_vars

\* the map obtained by applying the transactions ts in order, from m
RECURSIVE Fold(_, _)
Fold(m, ts) == IF ts = <<>> THEN m ELSE Fold(apply(m, ts[1]).kv, Tail(ts))

\* C13: on a Server whose first call was a successful recover(), after any
\* further execute and recover calls, kv is the map obtained by applying
\* in order, from the empty map, the transactions a full replay of the log
\* yields.
StateIsFoldOfLog ==
    first = "recover" => kv = Fold(<<>>, Stored)

\* on a log that began empty, the first Server made only execute calls,
\* one of which failed at append, and a later one succeeded
FailedThenSucceeded ==
    /\ run.pure
    /\ \E i, j \in 1..Len(run.kinds) : i < j /\ run.kinds[i] # "ok" /\ run.kinds[j] = "ok"

\* the number of the execute call that failed (its id is one less)
FailedCall == CHOOSE i \in 1..Len(run.kinds) : run.kinds[i] # "ok"

\* C14: when an execute failed at append and a later execute of the same
\* Server succeeded, the log lacks the failed id and holds the next one,
\* and recover() on a fresh Server over that log fails with the sequencing
\* error, at that record: it has applied the records before it only.
AppendFailureMakesGap ==
    FailedThenSucceeded =>
        LET r == recover(0, <<>>, FALSE, 0)
        IN  /\ \A i \in 1..Len(Stored) : Stored[i].id # FailedCall - 1
            /\ \E i \in 1..Len(Stored) : Stored[i].id = FailedCall
            /\ ~r.ok /\ r.err = "sequencing"
            /\ r.tid = FailedCall - 1

\* the ids of the records stored in the log, in append order
StoredIds == [i \in 1..Len(Stored) |-> Stored[i].id]

\* C15: whatever Servers were built over the log and whatever execute and
\* recover calls they made, the ids of the stored records, read in append
\* order, are strictly increasing.
StoredIdsIncrease == StrictlyIncreasing(StoredIds)

\* C16: no id is applied to State twice over a Server's lifetime, whatever
\* execute and recover calls it makes; a recover() whose reads do not fail
\* skips each replayed transaction with an id below the counter, changing
\* neither kv nor the counter, and applies each one with the id the counter
\* has, once, raising the counter by 1.
NoDoubleApply ==
    /\ [](\A i, j \in 1..Len(applied) : i # j => applied[i] # applied[j])
    /\ [][ret'.op = "execute" =>
             applied' = IF ret'.ok THEN Append(applied, transaction_id) ELSE applied]_vars
    /\ [][(ret'.op = "recover" /\ ret'.err # "io") =>
             LET w == Walk(Elements, transaction_id, kv)
             IN  /\ kv' = w.kv
                 /\ transaction_id' = w.tid
                 /\ transaction_id' = transaction_id + Len(w.applied)
                 /\ applied' = applied \o w.applied]_vars

\* over a log with ids 0, 1, 0 (the last one executed by this Server before
\* it recovered), recover() skipped id 0 twice and applied id 1 once
NoDoubleApplyWitness ==
    /\ ret.op = "recover" /\ ret.ok
    /\ StoredIds = <<0, 1, 0>>
    /\ issued = <<0>>
    /\ applied = <<0, 1>>
    /\ transaction_id = 2

\* the elements es of a replay hold one that does not decode
HasDecodeFailure(es) == \E i \in 1..Len(es) : es[i].kind # "ok"

\* C17: recover() returns a failure when the replay yields a failure
\* element (decode or read) or replay() itself fails, with kv and the
\* counter as the records before that element left them, nothing after it
\* being applied; it returns Ok only when every element of the replay
\* decoded and no gap was met.
RecoveryDoesNotSwallow ==
    [][ret'.op = "recover" =>
          \E es \in {Elements} :
          \E w \in {Walk(es, transaction_id, kv)} :
          \E bad \in {HasDecodeFailure(es)} :
              /\ ret'.ok <=> ret'.err = ""
              /\ ret'.ok => (~bad /\ ~w.gap)
              /\ ret'.err # "io" => ((bad /\ ~w.gap) <=> ret'.err = "decode")
              /\ ret'.err = "decode" => (kv' = w.kv /\ transaction_id' = w.tid)
              /\ ret'.err = "io" =>
                     \E k \in 0..Len(es) :
                     \E v \in {Walk(SubSeq(es, 1, k), transaction_id, kv)} :
                         /\ \A i \in 1..k : es[i].kind = "ok"
                         /\ ~v.gap
                         /\ kv' = v.kv /\ transaction_id' = v.tid]_vars

\* a fresh Server over the corrupt file: the first record was applied, the
\* failure returned, the valid record after the bad line not applied
RecoveryDoesNotSwallowWitness ==
    /\ ret.op = "recover" /\ ret.err = "decode" /\ ~ret.ok
    /\ SubSeq(file, 1, Len(CorruptFile)) = CorruptFile
    /\ applied = <<0>>
    /\ transaction_id = 1

\* the command a query stands for, told from its words
CommandOf(q) ==
    IF IsGetQuery(q) THEN Get(WordsOf(q)[2])
    ELSE IF IsSetQuery(q) THEN Set(WordsOf(q)[2], WordsOf(q)[3])
    ELSE Nop

\* an execute call never fails but for an append failure; a query that is
\* neither GET nor SET returns ""; a query that is not a SET leaves kv as it
\* was; every call raises transaction_id by 1
ReadsAndNopsFrame ==
    [][ret'.op = "execute" =>
          /\ ~ret'.ok => ret'.err = "io"
          /\ (ret'.ok /\ ~IsGetQuery(lastQuery') /\ ~IsSetQuery(lastQuery')) => ret'.val = ""
          /\ ~IsSetQuery(lastQuery') => kv' = kv
          /\ transaction_id' = transaction_id + 1]_vars

\* a successful execute of a query that is not a SET adds one record to the
\* log, after those it held: the transaction with the id the counter had
\* and the query's command (Nop for a query that is neither GET nor SET)
ReadsAndNopsLogged ==
    [][(ret'.op = "execute" /\ ret'.ok /\ ~IsSetQuery(lastQuery')) =>
          Stored' = Append(Stored, Transaction(transaction_id, CommandOf(lastQuery')))]_vars

\* C18: a query that is neither GET <key> nor SET <key> <value> never fails
\* to parse, maps to Nop and returns ""; execute of a Get or a Nop leaves kv
\* unchanged, yet appends exactly one transaction to the log and raises
\* transaction_id by 1.
ReadsAndNopsAreLogged == ReadsAndNopsFrame /\ ReadsAndNopsLogged

\* what a log of backend b with data d and file f holds
ElementsIn(b, d, f) == IF b = "mem" THEN ElementsOfData(d) ELSE ElementsOfLines(LinesOf(f))

\* C19: a recover() call, whether it returns Ok or a failure, leaves the
\* records stored in the log, and the contents behind them, as they were.
RecoveryNeverWrites ==
    [][ret'.op = "recover" =>
          \E before \in {Elements} :
          \E after \in {ElementsIn(backend', data', file')} :
              /\ TxnsOf(after) = TxnsOf(before)
              /\ after = before
              /\ data' = data /\ file' = file /\ disk' = disk]_vars

\* a fresh Server recovered a file of two records written by another one
RecoveryNeverWritesWitness ==
    /\ ret.op = "recover" /\ ret.ok
    /\ backend = "disk"
    /\ issued = <<>>
    /\ applied = <<0, 1>>
    /\ Len(Stored) = 2
    /\ pos = Len(file)

\* the largest of the ids, -1 when there is none
MaxOf(ids) == IF ids = <<>> THEN -1 ELSE CHOOSE x \in Range(ids) : \A y \in Range(ids) : y <= x

\* ids is 0, 1, ..., Len(ids) - 1
Contiguous(ids) == \A i \in 1..Len(ids) : ids[i] = i - 1

\* a successful recover() on a fresh Server leaves the counter at 0 for an
\* empty log and otherwise at one more than the largest id in the log
RecoveredCounter ==
    [][(first = "none" /\ ret'.op = "recover" /\ ret'.ok) =>
          transaction_id' = MaxOf(StoredIds) + 1]_vars

\* the Server's only call so far was a successful recover()
JustRecovered == first = "recover" /\ streak = 1 /\ issued = <<>>

\* the execute that follows appends a record with an id above every id in
\* the log, and a log that held ids 0..n-1 in order then holds 0..n
NextAfterRecovery ==
    [][(JustRecovered /\ ret'.op = "execute" /\ ret'.ok) =>
          LET after == TxnsOf(ElementsIn(backend', data', file'))
          IN  /\ transaction_id > MaxOf(StoredIds)
              /\ after = Append(Stored, Transaction(transaction_id, CommandOf(lastQuery')))
              /\ Contiguous(StoredIds) =>
                     Contiguous([i \in 1..Len(after) |-> after[i].id])]_vars

\* C20: when recover() returns Ok on a fresh Server, transaction_id is 0 for
\* an empty log and otherwise one more than the largest id in the log; the
\* next execute appends a record whose id is greater than every id in the
\* log, and a log that held ids 0..n-1 in order then holds 0..n.
IdsContinueAfterRestart == RecoveredCounter /\ NextAfterRecovery

====
